---- MODULE Spec2Model ----
(***************************************************************************)
(* State-machine model of the two enrichment scripts                       *)
(*   Step_2_NLP_description_extraction.py  (description scraping, keyword  *)
(*                                          indicators)                    *)
(*   Step_3_NLP_location_enhancement.py    (geocoding, regional estimators,*)
(*                                          composite location score)      *)
(*                                                                         *)
(* Representation.                                                         *)
(*   - A Python str is a sequence of one-character strings.                *)
(*   - An optional value is None == <<>> or Some(v) == <<v>>.              *)
(*   - Latitude and longitude are in hundredths of a degree (37.3 is 3730, *)
(*     -122.5 is -12250); a transit distance is in tenths of a kilometre   *)
(*     (0.5 is 5, 1.0 is 10).                                              *)
(***************************************************************************)
EXTENDS Integers, Sequences, FiniteSets, TLC

VARIABLES
  text, cleaned, recleaned,
  description, nlp_features,
  response, selected, returned,
  lat, lon, address, google_api_key, places, estimate, places_calls,
  frame, scored,
  script, pc, df, key, work, i, descriptions, nlp_features_list, log, complete

cleanVars == <<text, cleaned, recleaned>>

nlpVars == <<description, nlp_features>>

extractVars == <<response, selected, returned>>

estimVars == <<lat, lon, address, google_api_key, places, estimate, places_calls>>

scoreVars == <<frame, scored>>

batchVars ==
  <<script, pc, df, key, work, i, descriptions, nlp_features_list, log, complete>>

vars == <<cleanVars, nlpVars, extractVars, estimVars, scoreVars, batchVars>>

None == <<>>

Some(v) == <<v>>

Val(o) == o[1]

(***************************************************************************)
(* Python str helpers                                                      *)
(***************************************************************************)
Rep(c, n) == [k \in 1..n |-> c]

IsSpace(c) == c \in {" ", "\n", "\t"}

\* re.sub(r'\s+', ' ', text): every maximal run of whitespace becomes one space
CollapseWhitespace(s) ==
  LET marked == [k \in 1..Len(s) |->
                   <<s[k], k > 1 /\ IsSpace(s[IF k > 1 THEN k - 1 ELSE 1])>>]
      Keep(p) == ~(IsSpace(p[1]) /\ p[2])
      kept == SelectSeq(marked, Keep)
  IN [k \in 1..Len(kept) |-> IF IsSpace(kept[k][1]) THEN " " ELSE kept[k][1]]

\* str.strip(): drop leading and trailing whitespace
Strip(s) ==
  IF \A k \in 1..Len(s) : IsSpace(s[k]) THEN <<>>
  ELSE LET first == CHOOSE k \in 1..Len(s) :
                      ~IsSpace(s[k]) /\ \A j \in 1..(k - 1) : IsSpace(s[j])
           last == CHOOSE k \in 1..Len(s) :
                      ~IsSpace(s[k]) /\ \A j \in (k + 1)..Len(s) : IsSpace(s[j])
       IN SubSeq(s, first, last)

\* str.startswith(prefix)
StartsWith(s, prefix) ==
  Len(s) >= Len(prefix) /\ SubSeq(s, 1, Len(prefix)) = prefix

\* `sub in s`
Contains(s, sub) ==
  \E k \in 0..(Len(s) - Len(sub)) : SubSeq(s, k + 1, k + Len(sub)) = sub

LowerCase ==
  ("A" :> "a") @@ ("B" :> "b") @@ ("C" :> "c") @@ ("D" :> "d") @@ ("E" :> "e") @@ ("F" :> "f") @@ ("G" :> "g") @@ ("H" :> "h") @@ ("I" :> "i") @@ ("J" :> "j") @@ ("K" :> "k") @@ ("L" :> "l") @@ ("M" :> "m") @@ ("N" :> "n") @@ ("O" :> "o") @@ ("P" :> "p") @@ ("Q" :> "q") @@ ("R" :> "r") @@ ("S" :> "s") @@ ("T" :> "t") @@ ("U" :> "u") @@ ("V" :> "v") @@ ("W" :> "w") @@ ("X" :> "x") @@ ("Y" :> "y") @@ ("Z" :> "z")

\* str.lower() on ASCII text
Lower(s) ==
  [k \in 1..Len(s) |-> IF s[k] \in DOMAIN LowerCase THEN LowerCase[s[k]] ELSE s[k]]

RECURSIVE Concat(_)
Concat(ss) == IF ss = <<>> THEN <<>> ELSE Head(ss) \o Concat(Tail(ss))

(***************************************************************************)
(* PropertyDescriptionScraper.clean_description                            *)
(***************************************************************************)
prefixes_to_remove ==
  << <<"P","r","o","p","e","r","t","y"," ","D","e","s","c","r","i","p","t","i","o","n",":">>,
     <<"D","e","s","c","r","i","p","t","i","o","n",":">>,
     <<"A","b","o","u","t"," ","t","h","i","s"," ","p","r","o","p","e","r","t","y",":">>,
     <<"P","r","o","p","e","r","t","y"," ","D","e","t","a","i","l","s",":">>,
     <<"L","i","s","t","e","d"," ","b","y",":">>,
     <<"L","i","s","t","i","n","g"," ","p","r","o","v","i","d","e","d"," ","b","y",":">> >>

Ellipsis == <<".",".",".">>

\* for prefix in prefixes_to_remove: if text.startswith(prefix): ...
RECURSIVE RemovePrefixes(_, _)
RemovePrefixes(t, k) ==
  IF k > Len(prefixes_to_remove) THEN t
  ELSE LET prefix == prefixes_to_remove[k]
       IN RemovePrefixes(IF StartsWith(t, prefix)
                           THEN Strip(SubSeq(t, Len(prefix) + 1, Len(t)))
                           ELSE t,
                         k + 1)

clean_description(t) ==
  IF t = <<>> THEN <<>>
  ELSE LET collapsed == CollapseWhitespace(t)
           stripped == RemovePrefixes(collapsed, 1)
           truncated == IF Len(stripped) > 2000
                          THEN SubSeq(stripped, 1, 2000) \o Ellipsis
                          ELSE stripped
       IN Strip(truncated)

(***************************************************************************)
(* SpecClean: clean_description applied to a drawn text, then to its own   *)
(* result.                                                                 *)
(***************************************************************************)
MaxPrefixes == 2

LengthSlack == 2

PrefixRuns ==
  UNION {[1..n -> 1..Len(prefixes_to_remove)] : n \in 0..MaxPrefixes}

Bodies ==
  {<<>>, <<"h", "o", "m", "e">>, <<"a", " ", " ", "b", "\n">>}
    \cup {Rep("a", n) : n \in (2000 - LengthSlack)..(2000 + LengthSlack)}
    \cup {Rep("a", 1500) \o <<" ", "\t">> \o Rep("b", 600)}

ScenarioRaw == <<"D","e","s","c","r","i","p","t","i","o","n",":"," "," "," ","S","t","u","n","n","i","n","g"," "," "," ","r","e","n","o","v","a","t","e","d"," ","h","o","m","e"," ","w","i","t","h"," ","m","o","u","n","t","a","i","n"," ","v","i","e","w","s","."," "," "," ">>

ScenarioClean == <<"S","t","u","n","n","i","n","g"," ","r","e","n","o","v","a","t","e","d"," ","h","o","m","e"," ","w","i","t","h"," ","m","o","u","n","t","a","i","n"," ","v","i","e","w","s",".">>

CleanInputs ==
  {lead \o Concat([k \in 1..Len(run) |-> prefixes_to_remove[run[k]] \o gap]) \o body :
     lead \in {<<>>, <<" ">>}, run \in PrefixRuns, gap \in {<<>>, <<" ">>},
     body \in Bodies}
    \cup {ScenarioRaw}

CleanIdle == text = <<>> /\ cleaned = None /\ recleaned = None

InitClean == text \in CleanInputs /\ cleaned = None /\ recleaned = None

CleanOnce ==
  /\ cleaned = None
  /\ cleaned' = Some(clean_description(text))
  /\ UNCHANGED <<text, recleaned>>

CleanAgain ==
  /\ cleaned # None
  /\ recleaned = None
  /\ recleaned' = Some(clean_description(Val(cleaned)))
  /\ UNCHANGED <<text, cleaned>>


(***************************************************************************)
(* extract_nlp_features                                                    *)
(***************************************************************************)
NoDescriptionFound == <<"N","o"," ","d","e","s","c","r","i","p","t","i","o","n"," ","f","o","u","n","d">>

ErrorExtracting == <<"E","r","r","o","r"," ","e","x","t","r","a","c","t","i","n","g"," ","d","e","s","c","r","i","p","t","i","o","n">>

luxury_keywords ==
  << <<"l","u","x","u","r","y">>,
     <<"l","u","x","u","r","i","o","u","s">>,
     <<"h","i","g","h","-","e","n","d">>,
     <<"p","r","e","m","i","u","m">>,
     <<"u","p","s","c","a","l","e">>,
     <<"e","l","e","g","a","n","t">>,
     <<"s","o","p","h","i","s","t","i","c","a","t","e","d">>,
     <<"c","u","s","t","o","m">>,
     <<"d","e","s","i","g","n","e","r">> >>

renovation_keywords ==
  << <<"r","e","n","o","v","a","t","e","d">>,
     <<"u","p","d","a","t","e","d">>,
     <<"r","e","m","o","d","e","l","e","d">>,
     <<"n","e","w">>,
     <<"f","r","e","s","h">>,
     <<"m","o","d","e","r","n">>,
     <<"c","o","n","t","e","m","p","o","r","a","r","y">>,
     <<"u","p","g","r","a","d","e","d">> >>

view_keywords ==
  << <<"v","i","e","w">>,
     <<"v","i","e","w","s">>,
     <<"o","v","e","r","l","o","o","k">>,
     <<"s","c","e","n","i","c">>,
     <<"p","a","n","o","r","a","m","i","c">>,
     <<"m","o","u","n","t","a","i","n">>,
     <<"o","c","e","a","n">>,
     <<"c","i","t","y"," ","l","i","g","h","t","s">> >>

outdoor_keywords ==
  << <<"y","a","r","d">>,
     <<"g","a","r","d","e","n">>,
     <<"p","a","t","i","o">>,
     <<"d","e","c","k">>,
     <<"p","o","o","l">>,
     <<"o","u","t","d","o","o","r">>,
     <<"l","a","n","d","s","c","a","p","e","d">>,
     <<"b","a","c","k","y","a","r","d">> >>

modern_keywords ==
  << <<"s","m","a","r","t"," ","h","o","m","e">>,
     <<"s","t","a","i","n","l","e","s","s"," ","s","t","e","e","l">>,
     <<"g","r","a","n","i","t","e">>,
     <<"h","a","r","d","w","o","o","d">>,
     <<"m","a","r","b","l","e">>,
     <<"q","u","a","r","t","z">>,
     <<"t","i","l","e">> >>

location_keywords ==
  << <<"w","a","l","k","i","n","g"," ","d","i","s","t","a","n","c","e">>,
     <<"c","l","o","s","e"," ","t","o">>,
     <<"n","e","a","r">>,
     <<"c","o","n","v","e","n","i","e","n","t">>,
     <<"a","c","c","e","s","s","i","b","l","e">>,
     <<"c","o","m","m","u","t","e">>,
     <<"d","o","w","n","t","o","w","n">> >>

\* 0 if any(...) else 1: the two branches of the conditional swapped
AnyKeywordSwapped(desc_lower, keywords) ==
  IF \E k \in 1..Len(keywords) : Contains(desc_lower, keywords[k]) THEN 0 ELSE 1

\* 1 if any(keyword in desc_lower for keyword in keywords) else 0
AnyKeyword(desc_lower, keywords) ==
  IF \E k \in 1..Len(keywords) : Contains(desc_lower, keywords[k]) THEN 1 ELSE 0

NoKeywords ==
  [has_luxury_keywords |-> 0, has_renovation_keywords |-> 0,
   has_view_keywords |-> 0, has_outdoor_keywords |-> 0,
   has_modern_keywords |-> 0, has_location_keywords |-> 0]

extract_nlp_features(d) ==
  IF d = <<>> \/ d = NoDescriptionFound THEN NoKeywords
  ELSE LET desc_lower == Lower(d)
       IN [has_luxury_keywords |-> AnyKeyword(desc_lower, luxury_keywords),
           has_renovation_keywords |-> AnyKeyword(desc_lower, renovation_keywords),
           has_view_keywords |-> AnyKeyword(desc_lower, view_keywords),
           has_outdoor_keywords |-> AnyKeyword(desc_lower, outdoor_keywords),
           has_modern_keywords |-> AnyKeyword(desc_lower, modern_keywords),
           has_location_keywords |-> AnyKeyword(desc_lower, location_keywords)]

(***************************************************************************)
(* SpecNlp: extract_nlp_features applied to a drawn description.           *)
(***************************************************************************)
AllKeywords ==
  luxury_keywords \o renovation_keywords \o view_keywords \o outdoor_keywords
    \o modern_keywords \o location_keywords

Upper(s) ==
  [k \in 1..Len(s) |->
     IF \E u \in DOMAIN LowerCase : LowerCase[u] = s[k]
       THEN CHOOSE u \in DOMAIN LowerCase : LowerCase[u] = s[k]
       ELSE s[k]]

NlpInputs ==
  {<<>>, NoDescriptionFound, ErrorExtracting, ScenarioClean}
    \cup {<<"A", " ">> \o AllKeywords[k] \o <<" ", "z", ".">> : k \in 1..Len(AllKeywords)}
    \cup {Upper(AllKeywords[k]) : k \in 1..Len(AllKeywords)}
    \cup {AllKeywords[j] \o <<" ">> \o AllKeywords[k] :
            j \in 1..Len(luxury_keywords), k \in 1..Len(AllKeywords)}

NlpIdle == description = <<>> /\ nlp_features = None

InitNlp == description \in NlpInputs /\ nlp_features = None

ExtractFeatures ==
  /\ nlp_features = None
  /\ nlp_features' = Some(extract_nlp_features(description))
  /\ UNCHANGED description

(***************************************************************************)
(* PropertyDescriptionScraper.extract_description_from_url                 *)
(*                                                                         *)
(* A response is what session.get / raise_for_status / BeautifulSoup give  *)
(* for the URL: kind "ok" with, for every selector rule, the texts         *)
(* (get_text(strip=True)) of the elements soup.select returns, in document *)
(* order; or a failure kind, each of which raises inside the try block.    *)
(***************************************************************************)
description_selectors ==
  << ".Text-c11n-8-84-3__sc-aiai24-0.dpf__sc-1me6wg9-0.jHtYqh.hBiUwn",
     "[data-testid=description-text]",
     ".ds-overview-section",
     ".remarks",
     ".listing-description",
     ".ldp-property-description",
     ".property-description",
     ".description",
     ".property-details",
     ".listing-details",
     "[class*=description]",
     "[class*=remarks]",
     "[class*=details]" >>

FailureKinds == {"timeout", "connection_error", "http_error", "parse_error"}

Failed(kind) == [kind |-> kind, matches |-> <<>>]

Page(matches) == [kind |-> "ok", matches |-> matches]

NoMatches == [r \in 1..Len(description_selectors) |-> <<>>]

\* a call either returns a value or lets an exception escape
Return(v) == [raised |-> FALSE, value |-> v]

Raise == [raised |-> TRUE, value |-> <<>>]

\* max(texts, key=len): the first text of maximal length
LongestText(texts) ==
  texts[CHOOSE k \in 1..Len(texts) :
          /\ \A j \in 1..Len(texts) : Len(texts[j]) <= Len(texts[k])
          /\ \A j \in 1..(k - 1) : Len(texts[j]) < Len(texts[k])]

\* the loop over description_selectors with >= in place of >
RECURSIVE SelectDescriptionLastWins(_, _, _)
SelectDescriptionLastWins(matches, r, desc) ==
  IF r > Len(description_selectors) THEN desc
  ELSE LET texts == matches[r]
       IN IF texts # <<>> /\ Len(LongestText(texts)) >= Len(desc)
            THEN SelectDescriptionLastWins(matches, r + 1, LongestText(texts))
            ELSE SelectDescriptionLastWins(matches, r + 1, desc)

\* the loop over description_selectors, from rule r on, desc the text so far
RECURSIVE SelectDescription(_, _, _)
SelectDescription(matches, r, desc) ==
  IF r > Len(description_selectors) THEN desc
  ELSE LET texts == matches[r]
       IN IF texts # <<>> /\ Len(LongestText(texts)) > Len(desc)
            THEN SelectDescription(matches, r + 1, LongestText(texts))
            ELSE SelectDescription(matches, r + 1, desc)

\* return description if len(description) >= 50 else "No description found"
DescriptionOrSentinelAtLeast(desc) ==
  IF Len(desc) >= 50 THEN desc ELSE NoDescriptionFound

\* return description if len(description) > 50 else "No description found"
DescriptionOrSentinel(desc) ==
  IF Len(desc) > 50 THEN desc ELSE NoDescriptionFound

\* the except clause catching only requests.exceptions.Timeout
ExtractCatchingTimeoutOnly(resp) ==
  IF resp.kind = "ok"
    THEN Return(DescriptionOrSentinel(
                  clean_description(SelectDescription(resp.matches, 1, <<>>))))
  ELSE IF resp.kind = "timeout" THEN Return(ErrorExtracting)
  ELSE Raise

extract_description_from_url(resp) ==
  IF resp.kind = "ok"
    THEN Return(DescriptionOrSentinel(
                  clean_description(SelectDescription(resp.matches, 1, <<>>))))
    ELSE Return(ErrorExtracting)

(***************************************************************************)
(* SpecExtract: extract_description_from_url applied to a drawn response.  *)
(***************************************************************************)
MaxElements == 2

SelectionTexts == {<<>>, Rep("a", 10), Rep("c", 200), Rep("d", 200)}

BoundaryTexts ==
  {Rep("e", n) : n \in (50 - LengthSlack)..(50 + LengthSlack)}
    \cup {prefixes_to_remove[2] \o <<" ">> \o Rep("f", n) \o <<" ", "\n">> :
            n \in (50 - LengthSlack)..(50 + LengthSlack)}

ElementTexts(pool) == UNION {[1..n -> pool] : n \in 1..MaxElements}

Responses ==
  {Failed(k) : k \in FailureKinds}
    \cup {Page(NoMatches)}
    \cup {Page([NoMatches EXCEPT ![r] = <<t>>]) :
            r \in 1..Len(description_selectors), t \in BoundaryTexts}
    \cup {Page([NoMatches EXCEPT ![r1] = <<t>>, ![r2] = ts]) :
            r1 \in 1..Len(description_selectors),
            r2 \in 1..Len(description_selectors),
            ts \in ElementTexts(SelectionTexts), t \in SelectionTexts}

ExtractIdle == response = Failed("timeout") /\ selected = None /\ returned = None

InitExtract == response \in Responses /\ selected = None /\ returned = None

\* one call of extract_description_from_url; selected records the local
\* `description` as it stands when the selector loop ends
ExtractDescription ==
  /\ returned = None
  /\ returned' = Some(extract_description_from_url(response))
  /\ selected' = IF response.kind = "ok"
                   THEN Some(SelectDescription(response.matches, 1, <<>>))
                   ELSE None
  /\ UNCHANGED response

(***************************************************************************)
(* LocationEnhancer: the regional estimators                               *)
(***************************************************************************)
\* Python truthiness of an optional number: None and 0 are both falsy
Falsy(o) == o = None \/ Val(o) = 0

\* Python truthiness of an optional string: None and "" are both falsy
FalsyStr(o) == o = None \/ Val(o) = <<>>

Ratings(elementary, middle, high, district) ==
  [nearest_elementary_rating |-> Some(elementary),
   nearest_middle_rating |-> Some(middle),
   nearest_high_rating |-> Some(high),
   school_district |-> Some(district)]

NoRatings ==
  [nearest_elementary_rating |-> None, nearest_middle_rating |-> None,
   nearest_high_rating |-> None, school_district |-> None]

\* the sub-band tests of get_estimated_school_ratings with the Peninsula test first
SchoolRatingsPeninsulaFirst(la, lo) ==
  IF 3730 <= Val(la) /\ Val(la) <= 3780 /\ -12250 <= Val(lo) /\ Val(lo) <= -12180
    THEN IF -12230 <= Val(lo) /\ Val(lo) <= -12210
           THEN Ratings(8, 8, 8, "Peninsula Schools")
         ELSE IF -12220 <= Val(lo) /\ Val(lo) <= -12190
           THEN Ratings(7, 7, 6, "East Bay Unified")
         ELSE Ratings(6, 6, 7, "Bay Area Schools")
    ELSE Ratings(6, 6, 6, "Local District")

\* get_estimated_school_ratings once both coordinates are truthy
SchoolRatingsAt(la, lo) ==
  IF 3730 <= Val(la) /\ Val(la) <= 3780 /\ -12250 <= Val(lo) /\ Val(lo) <= -12180
    THEN IF -12220 <= Val(lo) /\ Val(lo) <= -12190
           THEN Ratings(7, 7, 6, "East Bay Unified")
         ELSE IF -12230 <= Val(lo) /\ Val(lo) <= -12210
           THEN Ratings(8, 8, 8, "Peninsula Schools")
         ELSE Ratings(6, 6, 7, "Bay Area Schools")
    ELSE Ratings(6, 6, 6, "Local District")

get_estimated_school_ratings(la, lo) ==
  IF Falsy(la) \/ Falsy(lo) THEN NoRatings ELSE SchoolRatingsAt(la, lo)

Transit(distance, type, score) ==
  [distance_to_transit |-> Some(distance), nearest_transit_type |-> Some(type),
   public_transit_score |-> Some(score)]

EstimatedTransit == Transit(8, "Bus", 60)

FoundTransit == Transit(5, "Transit Station", 80)

\* The nearby-places call: it raises, or answers with a status code and a
\* body that is not JSON ("invalid") or a JSON object whose 'results' list
\* has `results` entries (0 also when the key is absent).
PlacesRaises(kind) == [kind |-> kind, status_code |-> 0, json |-> "none", results |-> 0]

PlacesResponse(code, json, n) ==
  [kind |-> "response", status_code |-> code, json |-> json, results |-> n]

\* the result of get_transit_data_google with the number of session.get calls
TransitReturn(v, calls) == [raised |-> FALSE, value |-> v, calls |-> calls]

get_transit_data_google(api_key, la, lo, outcome) ==
  IF FalsyStr(api_key) \/ Falsy(la) \/ Falsy(lo) THEN TransitReturn(EstimatedTransit, 0)
  ELSE IF outcome.kind # "response" THEN TransitReturn(EstimatedTransit, 1)
  ELSE IF outcome.status_code = 200
    THEN IF outcome.json = "invalid" THEN TransitReturn(EstimatedTransit, 1)
         ELSE IF outcome.results > 0 THEN TransitReturn(FoundTransit, 1)
         ELSE TransitReturn(EstimatedTransit, 1)
  ELSE TransitReturn(EstimatedTransit, 1)

urban_cities ==
  << <<"s","a","n"," ","f","r","a","n","c","i","s","c","o">>,
     <<"d","o","w","n","t","o","w","n">>,
     <<"m","a","n","h","a","t","t","a","n">>,
     <<"b","r","o","o","k","l","y","n">>,
     <<"b","o","s","t","o","n">>,
     <<"w","a","s","h","i","n","g","t","o","n"," ","d","c">>,
     <<"c","h","i","c","a","g","o"," ","l","o","o","p">> >>

suburban_cities ==
  << <<"p","a","l","o"," ","a","l","t","o">>,
     <<"m","o","u","n","t","a","i","n"," ","v","i","e","w">>,
     <<"c","u","p","e","r","t","i","n","o">>,
     <<"s","u","n","n","y","v","a","l","e">>,
     <<"r","e","d","w","o","o","d"," ","c","i","t","y">>,
     <<"m","e","n","l","o"," ","p","a","r","k">>,
     <<"b","e","r","k","e","l","e","y">>,
     <<"o","a","k","l","a","n","d">> >>

small_town_cities ==
  << <<"f","r","e","m","o","n","t">>,
     <<"h","a","y","w","a","r","d">>,
     <<"s","a","n"," ","m","a","t","e","o">>,
     <<"m","i","l","p","i","t","a","s">> >>

\* any(city in address_lower for city in cities)
AnyCity(address_lower, cities) ==
  \E k \in 1..Len(cities) : Contains(address_lower, cities[k])

\* the tier tests of get_estimated_walk_score with the suburban test first
WalkScoreSuburbanFirst(address_lower) ==
  IF AnyCity(address_lower, suburban_cities) THEN 65
  ELSE IF AnyCity(address_lower, urban_cities) THEN 85
  ELSE IF AnyCity(address_lower, small_town_cities) THEN 55
  ELSE 45

\* get_estimated_walk_score once the address is truthy and lowercased
WalkScoreOf(address_lower) ==
  IF AnyCity(address_lower, urban_cities) THEN 85
  ELSE IF AnyCity(address_lower, suburban_cities) THEN 65
  ELSE IF AnyCity(address_lower, small_town_cities) THEN 55
  ELSE 45

get_estimated_walk_score(la, lo, addr) ==
  IF FalsyStr(addr) THEN 45 ELSE WalkScoreOf(Lower(Val(addr)))

Demographics(income, density, crime, type) ==
  [median_household_income |-> Some(income), population_density |-> Some(density),
   crime_index |-> Some(crime), area_type |-> Some(type)]

NoDemographics ==
  [median_household_income |-> None, population_density |-> None,
   crime_index |-> None, area_type |-> None]

get_estimated_demographics(la, lo) ==
  IF Falsy(la) \/ Falsy(lo) THEN NoDemographics
  ELSE IF 3730 <= Val(la) /\ Val(la) <= 3780 /\ -12250 <= Val(lo) /\ Val(lo) <= -12180
    THEN IF -12230 <= Val(lo) /\ Val(lo) <= -12210
           THEN Demographics(150000, 3000, 25, "Affluent Suburban")
           ELSE Demographics(100000, 2500, 35, "Suburban")
  ELSE Demographics(80000, 1500, 45, "Mixed")

(***************************************************************************)
(* SpecEstim: one estimator applied to drawn coordinates, address, API key *)
(* and nearby-places outcome.                                              *)
(***************************************************************************)
CoordSlack == 1

MaxResults == 2

Around(boundaries) == {b + d : b \in boundaries, d \in (0 - CoordSlack)..CoordSlack}

Latitudes == {None, Some(0)} \cup {Some(v) : v \in Around({3730, 3780})}

Longitudes ==
  {None, Some(0)}
    \cup {Some(v) : v \in Around({-12250, -12230, -12220, -12210, -12190, -12180})}

AddrSF == <<"1","2"," ","M","a","r","k","e","t"," ","S","t",","," ","S","a","n"," ","F","r","a","n","c","i","s","c","o",","," ","C","A">>

AddrDowntownOakland == <<"5","0","0"," ","B","r","o","a","d","w","a","y",","," ","D","o","w","n","t","o","w","n"," ","O","a","k","l","a","n","d",","," ","C","A">>

AddrPaloAlto == <<"1"," ","U","n","i","v","e","r","s","i","t","y"," ","A","v","e",","," ","P","a","l","o"," ","A","l","t","o",","," ","C","A">>

AddrFremont == <<"3","9"," ","M","o","w","r","y"," ","A","v","e",","," ","F","r","e","m","o","n","t",","," ","C","A">>

AddrSanMateoOakland == <<"S","a","n"," ","M","a","t","e","o"," ","R","d",","," ","O","a","k","l","a","n","d",","," ","C","A">>

AddrFresno == <<"7"," ","O","l","i","v","e"," ","A","v","e",","," ","F","r","e","s","n","o",","," ","C","A">>

AddrUpper == <<"9"," ","M","A","I","N"," ","S","T",","," ","B","E","R","K","E","L","E","Y",","," ","C","A">>

Addresses ==
  {None, Some(<<>>), Some(AddrSF), Some(AddrDowntownOakland), Some(AddrPaloAlto),
   Some(AddrFremont), Some(AddrSanMateoOakland), Some(AddrFresno), Some(AddrUpper)}

ApiKeys == {None, Some(<<>>), Some(<<"A", "I", "z", "a">>)}

PlacesOutcomes ==
  {PlacesRaises("timeout"), PlacesRaises("connection_error")}
    \cup {PlacesResponse(200, "invalid", 0)}
    \cup {PlacesResponse(code, "object", n) : code \in {200, 403}, n \in 0..MaxResults}

EstimIdle ==
  /\ lat = None /\ lon = None /\ address = None /\ google_api_key = None
  /\ places = PlacesRaises("timeout") /\ estimate = None /\ places_calls = 0

\* either the address varies (the walk score reads nothing else) or the
\* coordinates, the key and the nearby-places outcome do
InitEstim ==
  /\ \/ /\ address \in Addresses
        /\ lat \in {None, Some(3744)} /\ lon \in {None, Some(-12214)}
        /\ google_api_key = None /\ places = PlacesRaises("timeout")
     \/ /\ address \in {None, Some(AddrPaloAlto)}
        /\ lat \in Latitudes /\ lon \in Longitudes
        /\ google_api_key \in ApiKeys /\ places \in PlacesOutcomes
  /\ estimate = None /\ places_calls = 0

Estimated(fn, out) == Some([fn |-> fn, out |-> out])

EstimateSchools ==
  /\ estimate = None
  /\ estimate' = Estimated("school", Return(get_estimated_school_ratings(lat, lon)))
  /\ UNCHANGED <<lat, lon, address, google_api_key, places, places_calls>>

EstimateTransit ==
  /\ estimate = None
  /\ LET result == get_transit_data_google(google_api_key, lat, lon, places)
     IN /\ estimate' = Estimated("transit", result)
        /\ places_calls' = result.calls
  /\ UNCHANGED <<lat, lon, address, google_api_key, places>>

EstimateWalkScore ==
  /\ estimate = None
  /\ estimate' = Estimated("walk", Return(get_estimated_walk_score(lat, lon, address)))
  /\ UNCHANGED <<lat, lon, address, google_api_key, places, places_calls>>

EstimateDemographics ==
  /\ estimate = None
  /\ estimate' = Estimated("demographics", Return(get_estimated_demographics(lat, lon)))
  /\ UNCHANGED <<lat, lon, address, google_api_key, places, places_calls>>

(***************************************************************************)
(* create_location_features                                                *)
(*                                                                         *)
(* Every statement is a masked in-place addition over the whole table; a   *)
(* comparison with a missing value is False, so the row is left out of the *)
(* mask.  The model computes the same per row.                             *)
(***************************************************************************)
Ge(o, n) == o # None /\ Val(o) >= n

Gt(o, n) == o # None /\ Val(o) > n

Le(o, n) == o # None /\ Val(o) <= n

Lt(o, n) == o # None /\ Val(o) < n

Points(mask, n) == IF mask THEN n ELSE 0

WalkPoints(w) ==
  Points(Ge(w, 80), 3) + Points(Ge(w, 60) /\ Lt(w, 80), 2)
    + Points(Ge(w, 40) /\ Lt(w, 60), 1)

\* the school masks with > 8 in place of >= 8
SchoolPointsStrict(r) == Points(Gt(r, 8), 2) + Points(Ge(r, 6) /\ Lt(r, 8), 1)

SchoolPoints(r) == Points(Ge(r, 8), 2) + Points(Ge(r, 6) /\ Lt(r, 8), 1)

CrimePoints(c) == Points(Le(c, 30), 2) + Points(Gt(c, 30) /\ Le(c, 50), 1)

TransitPoints(d) == Points(Le(d, 5), 2) + Points(Gt(d, 5) /\ Le(d, 10), 1)

LocationScore(row) ==
  0 + WalkPoints(row.walk_score)
    + SchoolPoints(row.nearest_elementary_rating)
    + SchoolPoints(row.nearest_middle_rating)
    + SchoolPoints(row.nearest_high_rating)
    + CrimePoints(row.crime_index)
    + TransitPoints(row.distance_to_transit)

\* the category assignments with the Premium threshold at > 8
LocationCategoryStrict(score) ==
  LET premium == IF score > 8 THEN "Premium" ELSE "Average"
  IN IF score <= 3 THEN "Basic" ELSE premium

\* 'Average', overwritten by 'Premium' where score >= 8, then by 'Basic'
\* where score <= 3
LocationCategory(score) ==
  LET premium == IF score >= 8 THEN "Premium" ELSE "Average"
  IN IF score <= 3 THEN "Basic" ELSE premium

create_location_features(table) ==
  [k \in 1..Len(table) |->
     [table[k] EXCEPT !.location_score = Some(LocationScore(table[k])),
                      !.location_category =
                         Some(LocationCategory(LocationScore(table[k])))]]

(***************************************************************************)
(* SpecScore: create_location_features applied to a drawn table.           *)
(***************************************************************************)
ScoreRow(w, e, m, h, c, d) ==
  [walk_score |-> w, nearest_elementary_rating |-> e, nearest_middle_rating |-> m,
   nearest_high_rating |-> h, crime_index |-> c, distance_to_transit |-> d,
   location_score |-> None, location_category |-> None]

WalkScores == {None} \cup {Some(v) : v \in {0, 39, 40, 59, 60, 79, 80, 100}}

SchoolRatings == {None} \cup {Some(v) : v \in {5, 6, 7, 8, 10}}

CrimeIndexes == {None} \cup {Some(v) : v \in {25, 30, 31, 50, 51}}

TransitDistances == {None} \cup {Some(v) : v \in {0, 5, 6, 10, 11}}

ScoreRows ==
  {ScoreRow(w, e, m, h, c, d) :
     w \in WalkScores, e \in SchoolRatings, m \in SchoolRatings, h \in SchoolRatings,
     c \in CrimeIndexes, d \in TransitDistances}

UnknownRow == ScoreRow(None, None, None, None, None, None)

BoundaryRow == ScoreRow(Some(80), Some(8), Some(8), Some(8), Some(30), Some(5))

ScoreTables ==
  {<<r>> : r \in ScoreRows}
    \cup {<<r, s>> : r \in {UnknownRow, BoundaryRow},
                     s \in {ScoreRow(w, Some(7), None, Some(8), c, Some(6)) :
                              w \in WalkScores, c \in CrimeIndexes}}

ScoreIdle == frame = <<>> /\ scored = FALSE

InitScore == frame \in ScoreTables /\ scored = FALSE

CreateLocationFeatures ==
  /\ ~scored
  /\ frame' = create_location_features(frame)
  /\ scored' = TRUE

(***************************************************************************)
(* LocationEnhancer.geocode_address                                        *)
(*                                                                         *)
(* A geocoder outcome: "timeout" (GeocoderTimedOut), "error" (any other    *)
(* exception), "no_match" (geocode returns None) or "match" with the       *)
(* location's coordinates.                                                 *)
(***************************************************************************)
GeocodeFails(kind) == [kind |-> kind, latitude |-> 0, longitude |-> 0]

GeocodeMatch(la, lo) == [kind |-> "match", latitude |-> la, longitude |-> lo]

\* geocode_address without the trailing `except Exception`
GeocodeCatchingTimeoutOnly(outcome) ==
  IF outcome.kind = "match"
    THEN Return(<<Some(outcome.latitude), Some(outcome.longitude)>>)
  ELSE IF outcome.kind = "error" THEN Raise
  ELSE Return(<<None, None>>)

geocode_address(outcome) ==
  IF outcome.kind = "match"
    THEN Return(<<Some(outcome.latitude), Some(outcome.longitude)>>)
    ELSE Return(<<None, None>>)

(***************************************************************************)
(* The two scripts.  `script` says which one runs; `df` is the dataset read*)
(* from the CSV file, row k of it carrying the index label k - 1.          *)
(***************************************************************************)
NumRows == 2

Event(ev, label, what, secs) == [ev |-> ev, label |-> label, what |-> what, secs |-> secs]

SourceRow(link, addr) == [details_link |-> link, address |-> addr]

SourceRows ==
  {SourceRow(link, addr) :
     link \in {None, Some("url")}, addr \in {None, Some(<<>>), Some(AddrPaloAlto)}}

\* the labels, in table order, of the rows whose column `col` is not NaN
\* (df.dropna(subset=[col]))
RECURSIVE DropNaFrom(_, _, _)
DropNaFrom(table, col, k) ==
  IF k > Len(table) THEN <<>>
  ELSE (IF table[k][col] # None THEN <<k - 1>> ELSE <<>>) \o DropNaFrom(table, col, k + 1)

DropNa(table, col) == DropNaFrom(table, col, 1)

ListingText == <<"P","r","o","p","e","r","t","y"," ","D","e","s","c","r","i","p","t","i","o","n",":"," "," ","L","u","x","u","r","y"," ","r","e","n","o","v","a","t","e","d"," ","h","o","m","e"," ","w","i","t","h"," ","m","o","u","n","t","a","i","n"," ","v","i","e","w","s"," ","n","e","a","r"," ","d","o","w","n","t","o","w","n",".">>

ShortText == <<"C","a","l","l"," ","a","g","e","n","t"," ","f","o","r"," ","d","e","t","a","i","l","s",".">>

BatchResponses ==
  {Failed(k) : k \in FailureKinds}
    \cup {Page(NoMatches),
          Page([NoMatches EXCEPT ![4] = <<ShortText, ListingText>>]),
          Page([NoMatches EXCEPT ![8] = <<ShortText>>])}

GeocodeOutcomes ==
  {GeocodeFails("timeout"), GeocodeFails("error"), GeocodeFails("no_match"),
   GeocodeMatch(3744, -12214), GeocodeMatch(0, -12214)}

BatchPlaces ==
  {PlacesRaises("timeout"), PlacesResponse(200, "object", 0),
   PlacesResponse(200, "object", 1)}

BatchIdle ==
  /\ script = "none" /\ pc = "done" /\ df = <<>> /\ key = None /\ work = <<>>
  /\ i = 0 /\ descriptions = <<>> /\ nlp_features_list = <<>> /\ log = <<>>
  /\ complete = <<>>

Init ==
  /\ script \in {"step2", "step3"}
  /\ pc = "start"
  /\ df \in [1..NumRows -> SourceRows]
  /\ key \in {None, Some(<<"A", "I", "z", "a">>)}
  \* the column and the setting a script does not read are held fixed
  /\ (script = "step2" =>
        key = None /\ \A k \in 1..NumRows : df[k].address = Some(AddrPaloAlto))
  /\ (script = "step3" => \A k \in 1..NumRows : df[k].details_link = Some("url"))
  /\ work = <<>> /\ i = 0 /\ descriptions = <<>> /\ nlp_features_list = <<>>
  /\ log = <<>> /\ complete = <<>>

(***************************************************************************)
(* Step 2 main()                                                           *)
(***************************************************************************)
LinkRow(label, row) ==
  [label |-> label, details_link |-> row.details_link, address |-> row.address,
   property_description |-> None, features |-> None]

\* main() up to the loop: df_with_links = df.dropna(subset=['Details Link']);
\* return when it is empty
LoadLinks ==
  /\ script = "step2" /\ pc = "start"
  /\ LET labels == DropNa(df, "details_link")
     IN /\ work' = [k \in 1..Len(labels) |-> LinkRow(labels[k], df[labels[k] + 1])]
        /\ pc' = IF labels = <<>> THEN "done" ELSE "describe"
  /\ UNCHANGED <<script, df, key, i, descriptions, nlp_features_list, log, complete>>

\* the loop body with time.sleep(scraper.delay) outside the test of line 184
DescribeSleepingAfterLast ==
  /\ script = "step2" /\ pc = "describe"
  /\ \E resp \in BatchResponses :
       LET label == work[i + 1].label
           result == extract_description_from_url(resp)
           pause == <<Event("sleep", label, "delay", 2)>>
       IN IF result.raised
            THEN /\ pc' = "crashed"
                 /\ log' = log \o <<Event("fetch", label, resp.kind, 0)>>
                 /\ UNCHANGED <<i, descriptions, nlp_features_list>>
            ELSE /\ descriptions' = Append(descriptions, result.value)
                 /\ nlp_features_list' =
                      Append(nlp_features_list, extract_nlp_features(result.value))
                 /\ log' = log \o <<Event("fetch", label, resp.kind, 0),
                                    Event("features", label, "nlp", 0)>> \o pause
                 /\ i' = i + 1
                 /\ pc' = IF i + 1 = Len(work) THEN "assign" ELSE "describe"
  /\ UNCHANGED <<script, df, key, work, complete>>

\* one iteration of the loop over df_with_links.iterrows()
Describe ==
  /\ script = "step2" /\ pc = "describe"
  /\ \E resp \in BatchResponses :
       LET label == work[i + 1].label
           result == extract_description_from_url(resp)
           pause == IF i < Len(work) - 1
                      THEN <<Event("sleep", label, "delay", 2)>> ELSE <<>>
       IN IF result.raised
            THEN /\ pc' = "crashed"
                 /\ log' = log \o <<Event("fetch", label, resp.kind, 0)>>
                 /\ UNCHANGED <<i, descriptions, nlp_features_list>>
            ELSE /\ descriptions' = Append(descriptions, result.value)
                 /\ nlp_features_list' =
                      Append(nlp_features_list, extract_nlp_features(result.value))
                 /\ log' = log \o <<Event("fetch", label, resp.kind, 0),
                                    Event("features", label, "nlp", 0)>> \o pause
                 /\ i' = i + 1
                 /\ pc' = IF i + 1 = Len(work) THEN "assign" ELSE "describe"
  /\ UNCHANGED <<script, df, key, work, complete>>

\* df_with_links[col] = nlp_df[col]: nlp_df carries the labels 0..n-1, and
\* the assignment aligns on labels; a label nlp_df lacks gets NaN (None here)
AlignedFeatures(label) ==
  IF label < Len(nlp_features_list) THEN Some(nlp_features_list[label + 1]) ELSE None

\* main() after the loop: the new columns of df_with_links, then the merge
\* back into df
WriteDescriptions ==
  /\ script = "step2" /\ pc = "assign"
  /\ LET table == [k \in 1..Len(work) |->
                     [work[k] EXCEPT !.property_description = Some(descriptions[k]),
                                     !.features = AlignedFeatures(work[k].label)]]
         RowOf(label) == CHOOSE k \in 1..Len(table) : table[k].label = label
         HasLink(label) == \E k \in 1..Len(table) : table[k].label = label
     IN /\ work' = table
        /\ complete' =
             [k \in 1..Len(df) |->
                IF HasLink(k - 1)
                  THEN table[RowOf(k - 1)]
                  ELSE [LinkRow(k - 1, df[k]) EXCEPT
                          !.property_description = Some(<<>>),
                          !.features = Some(NoKeywords)]]
  /\ pc' = "done"
  /\ UNCHANGED <<script, df, key, i, descriptions, nlp_features_list, log>>

(***************************************************************************)
(* Step 3 main() and enhance_location_features                             *)
(***************************************************************************)
LocationRow(label, row) ==
  [label |-> label, address |-> row.address,
   latitude |-> None, longitude |-> None, walk_score |-> None,
   distance_to_transit |-> None, nearest_transit_type |-> None,
   public_transit_score |-> None, nearest_elementary_rating |-> None,
   nearest_middle_rating |-> None, nearest_high_rating |-> None,
   school_district |-> None, median_household_income |-> None,
   population_density |-> None, crime_index |-> None, area_type |-> None,
   location_score |-> None, location_category |-> None]

\* main() up to the loop of enhance_location_features:
\* df.dropna(subset=['Address']), return when it is empty, the new columns
\* initialised to None
LoadAddresses ==
  /\ script = "step3" /\ pc = "start"
  /\ LET labels == DropNa(df, "address")
     IN /\ work' = [k \in 1..Len(labels) |-> LocationRow(labels[k], df[labels[k] + 1])]
        /\ pc' = IF labels = <<>> THEN "done" ELSE "enhance"
  /\ UNCHANGED <<script, df, key, i, descriptions, nlp_features_list, log, complete>>

AfterRow == IF i + 1 = Len(work) THEN "score" ELSE "enhance"

\* an iteration that ends at `continue`: no address
SkipRow ==
  /\ script = "step3" /\ pc = "enhance"
  /\ FalsyStr(work[i + 1].address)
  /\ log' = Append(log, Event("skip", work[i + 1].label, "no address", 0))
  /\ i' = i + 1
  /\ pc' = AfterRow
  /\ UNCHANGED <<script, df, key, work, descriptions, nlp_features_list, complete>>

Estimates(row, walk, school, transit, demo) ==
  [row EXCEPT
     !.walk_score = Some(walk),
     !.nearest_elementary_rating = school.nearest_elementary_rating,
     !.nearest_middle_rating = school.nearest_middle_rating,
     !.nearest_high_rating = school.nearest_high_rating,
     !.school_district = school.school_district,
     !.distance_to_transit = transit.distance_to_transit,
     !.nearest_transit_type = transit.nearest_transit_type,
     !.public_transit_score = transit.public_transit_score,
     !.median_household_income = demo.median_household_income,
     !.population_density = demo.population_density,
     !.crime_index = demo.crime_index,
     !.area_type = demo.area_type]

\* an iteration that geocodes the address
LocateRow ==
  /\ script = "step3" /\ pc = "enhance"
  /\ ~FalsyStr(work[i + 1].address)
  /\ \E g \in GeocodeOutcomes, p \in BatchPlaces :
       LET row == work[i + 1]
           asked == <<Event("geocode", row.label, g.kind, 0)>>
           geo == geocode_address(g)
           la == geo.value[1]
           lo == geo.value[2]
           located == [row EXCEPT !.latitude = la, !.longitude = lo]
           transit == get_transit_data_google(key, la, lo, p)
           called == IF transit.calls = 1
                       THEN <<Event("places", row.label, p.kind, 0)>> ELSE <<>>
           pause == <<Event("sleep", row.label, "fixed", 1)>>
       IN IF geo.raised
            THEN pc' = "crashed" /\ log' = log \o asked /\ UNCHANGED <<work, i>>
          ELSE IF Falsy(la) \/ Falsy(lo)
            THEN /\ work' = [work EXCEPT ![i + 1] = located]
                 /\ log' = log \o asked \o pause
                 /\ i' = i + 1
                 /\ pc' = AfterRow
          ELSE IF transit.raised
            THEN /\ pc' = "crashed"
                 /\ work' = [work EXCEPT ![i + 1] = located]
                 /\ log' = log \o asked \o called
                 /\ UNCHANGED i
          ELSE /\ work' = [work EXCEPT ![i + 1] =
                             Estimates(located,
                                       get_estimated_walk_score(la, lo, row.address),
                                       get_estimated_school_ratings(la, lo),
                                       transit.value,
                                       get_estimated_demographics(la, lo))]
               /\ log' = log \o asked \o called
                           \o <<Event("estimates", row.label, "regional", 0)>> \o pause
               /\ i' = i + 1
               /\ pc' = AfterRow
  /\ UNCHANGED <<script, df, key, descriptions, nlp_features_list, complete>>

\* create_location_features called in the body of the loop, after each row,
\* instead of once after enhance_location_features has returned
ScoreTableInsideLoop ==
  /\ script = "step3" /\ pc \in {"enhance", "score"} /\ i >= 1
  /\ log[Len(log)].ev # "score"
  /\ work' = create_location_features(work)
  /\ log' = Append(log, Event("score", 0 - 1, "table", 0))
  /\ pc' = IF pc = "score" THEN "done" ELSE pc
  /\ UNCHANGED <<script, df, key, i, descriptions, nlp_features_list, complete>>

\* main(): enhanced_df = create_location_features(enhanced_df)
ScoreTable ==
  /\ script = "step3" /\ pc = "score"
  /\ work' = create_location_features(work)
  /\ log' = Append(log, Event("score", 0 - 1, "table", 0))
  /\ pc' = "done"
  /\ UNCHANGED <<script, df, key, i, descriptions, nlp_features_list, complete>>

(***************************************************************************)
(* Specifications                                                          *)
(***************************************************************************)
InitSpec == Init /\ CleanIdle /\ NlpIdle /\ ExtractIdle /\ EstimIdle /\ ScoreIdle

BatchOnly == UNCHANGED <<cleanVars, nlpVars, extractVars, estimVars, scoreVars>>

Next ==
  \/ LoadLinks /\ BatchOnly
  \/ Describe /\ BatchOnly
  \/ WriteDescriptions /\ BatchOnly
  \/ LoadAddresses /\ BatchOnly
  \/ SkipRow /\ BatchOnly
  \/ LocateRow /\ BatchOnly
  \/ ScoreTable /\ BatchOnly

Spec == InitSpec /\ [][Next]_vars

InitSpecClean ==
  InitClean /\ NlpIdle /\ ExtractIdle /\ EstimIdle /\ ScoreIdle /\ BatchIdle

CleanOnly == UNCHANGED <<nlpVars, extractVars, estimVars, scoreVars, batchVars>>

NextClean ==
  \/ CleanOnce /\ CleanOnly
  \/ CleanAgain /\ CleanOnly

SpecClean == InitSpecClean /\ [][NextClean]_vars

InitSpecNlp ==
  InitNlp /\ CleanIdle /\ ExtractIdle /\ EstimIdle /\ ScoreIdle /\ BatchIdle

NextNlp ==
  ExtractFeatures /\ UNCHANGED <<cleanVars, extractVars, estimVars, scoreVars, batchVars>>

SpecNlp == InitSpecNlp /\ [][NextNlp]_vars

InitSpecExtract ==
  InitExtract /\ CleanIdle /\ NlpIdle /\ EstimIdle /\ ScoreIdle /\ BatchIdle

NextExtract ==
  ExtractDescription /\ UNCHANGED <<cleanVars, nlpVars, estimVars, scoreVars, batchVars>>

SpecExtract == InitSpecExtract /\ [][NextExtract]_vars

InitSpecEstim ==
  InitEstim /\ CleanIdle /\ NlpIdle /\ ExtractIdle /\ ScoreIdle /\ BatchIdle

EstimOnly == UNCHANGED <<cleanVars, nlpVars, extractVars, scoreVars, batchVars>>

NextEstim ==
  \/ EstimateSchools /\ EstimOnly
  \/ EstimateTransit /\ EstimOnly
  \/ EstimateWalkScore /\ EstimOnly
  \/ EstimateDemographics /\ EstimOnly

SpecEstim == InitSpecEstim /\ [][NextEstim]_vars

InitSpecScore ==
  InitScore /\ CleanIdle /\ NlpIdle /\ ExtractIdle /\ EstimIdle /\ BatchIdle

NextScore ==
  CreateLocationFeatures
    /\ UNCHANGED <<cleanVars, nlpVars, extractVars, estimVars, batchVars>>

SpecScore == InitSpecScore /\ [][NextScore]_vars

(***************************************************************************)
(* Properties                                                              *)
(***************************************************************************)
ScoreInputs(row) ==
  <<row.walk_score, row.nearest_elementary_rating, row.nearest_middle_rating,
    row.nearest_high_rating, row.crime_index, row.distance_to_transit>>

WalkTier(w) ==
  IF w = None THEN 0
  ELSE IF Val(w) >= 80 THEN 3
  ELSE IF Val(w) >= 60 THEN 2
  ELSE IF Val(w) >= 40 THEN 1
  ELSE 0

SchoolTier(r) ==
  IF r = None THEN 0 ELSE IF Val(r) >= 8 THEN 2 ELSE IF Val(r) >= 6 THEN 1 ELSE 0

CrimeTier(c) ==
  IF c = None THEN 0 ELSE IF Val(c) <= 30 THEN 2 ELSE IF Val(c) <= 50 THEN 1 ELSE 0

TransitTier(d) ==
  IF d = None THEN 0 ELSE IF Val(d) <= 5 THEN 2 ELSE IF Val(d) <= 10 THEN 1 ELSE 0

\* C1: after create_location_features every row's location_score is the sum
\* of the walk, three school, crime and transit tiers, an unknown input
\* counting 0; the score lies in 0..13, and the row walk 80, ratings 8/8/8,
\* crime 30, transit distance 0.5 scores 13.
C1_ScoreIsSumOfTiers ==
  scored =>
    \A k \in 1..Len(frame) :
      LET row == frame[k]
          total == WalkTier(row.walk_score)
                     + SchoolTier(row.nearest_elementary_rating)
                     + SchoolTier(row.nearest_middle_rating)
                     + SchoolTier(row.nearest_high_rating)
                     + CrimeTier(row.crime_index)
                     + TransitTier(row.distance_to_transit)
      IN /\ row.location_score = Some(total)
         /\ Val(row.location_score) \in 0..13
         /\ (ScoreInputs(row) = <<Some(80), Some(8), Some(8), Some(8), Some(30), Some(5)>>
               => row.location_score = Some(13))

C1_Witness ==
  /\ scored
  /\ \E k \in 1..Len(frame) :
       /\ ScoreInputs(frame[k]) = <<Some(80), Some(8), Some(8), Some(8), Some(30), Some(5)>>
       /\ frame[k].location_score = Some(13)
  /\ \E k \in 1..Len(frame) :
       /\ frame[k].walk_score = None
       /\ frame[k].nearest_elementary_rating = Some(7)
       /\ frame[k].location_score # Some(0)

\* C2: after create_location_features every row has one location_category
\* fixed by its location_score: Premium iff score >= 8, Basic iff score <= 3,
\* Average iff 4..7; a row with every input unknown has score 0 and is Basic.
C2_CategoryFromScore ==
  scored =>
    \A k \in 1..Len(frame) :
      LET row == frame[k]
          s == Val(row.location_score)
          c == Val(row.location_category)
      IN /\ row.location_score # None /\ row.location_category # None
         /\ c \in {"Premium", "Average", "Basic"}
         /\ (c = "Premium" <=> s >= 8)
         /\ (c = "Basic" <=> s <= 3)
         /\ (c = "Average" <=> (4 <= s /\ s <= 7))
         /\ (ScoreInputs(row) = <<None, None, None, None, None, None>>
               => s = 0 /\ c = "Basic")

C2_Witness ==
  /\ scored
  /\ \E k \in 1..Len(frame) :
       /\ ScoreInputs(frame[k]) = <<None, None, None, None, None, None>>
       /\ frame[k].location_category = Some("Basic")
  /\ \E k \in 1..Len(frame) :
       /\ frame[k].location_score = Some(8)
       /\ frame[k].location_category = Some("Premium")

\* the (rule, element) positions of the texts a page matches
Positions(matches) ==
  UNION {{<<r, e>> : e \in 1..Len(matches[r])} : r \in 1..Len(description_selectors)}

TextAt(matches, p) == matches[p[1]][p[2]]

Earlier(p, q) == p[1] < q[1] \/ (p[1] = q[1] /\ p[2] < q[2])

\* C3: on a fetched page the text handed to cleaning is at least as long as
\* every matched text, whatever the order of the rules; among the matched
\* texts of that maximal length it is the one of the earliest rule, and the
\* earliest element within that rule; with no match at all it is empty.
C3_LongestTextFirstOnTies ==
  (returned # None /\ response.kind = "ok") =>
    LET m == response.matches
        P == Positions(m)
        sel == Val(selected)
    IN /\ \A p \in P : Len(TextAt(m, p)) <= Len(sel)
       /\ (P = {} => sel = <<>>)
       /\ (P # {} =>
             \E p \in P :
               /\ sel = TextAt(m, p)
               /\ \A q \in P : Len(TextAt(m, q)) = Len(sel) => ~Earlier(q, p))

C3_Witness ==
  /\ returned # None /\ response.kind = "ok"
  /\ \E p, q \in Positions(response.matches) :
       /\ p[1] < q[1]
       /\ Len(TextAt(response.matches, p)) = 200
       /\ Len(TextAt(response.matches, q)) = 200
       /\ TextAt(response.matches, p) # TextAt(response.matches, q)
       /\ selected = Some(TextAt(response.matches, p))
       /\ \E o \in Positions(response.matches) :
            o[1] = p[1] /\ o[2] < p[2] /\ Len(TextAt(response.matches, o)) = 10

\* C4 as stated: on a successful fetch the result is "No description found"
\* when the cleaned text is shorter than 50 characters and the cleaned text
\* for every length of 50 or more.
C4_SentinelBelow50 ==
  (returned # None /\ response.kind = "ok") =>
    LET c == clean_description(Val(selected))
    IN Val(returned) = Return(IF Len(c) < 50 THEN NoDescriptionFound ELSE c)

\* C4, amended: on a successful fetch the result is "No description found"
\* when the cleaned text has 50 characters or fewer (empty included) and the
\* cleaned text itself when it has 51 or more.
C4_SentinelUpTo50 ==
  (returned # None /\ response.kind = "ok") =>
    LET c == clean_description(Val(selected))
    IN Val(returned) = Return(IF Len(c) <= 50 THEN NoDescriptionFound ELSE c)

C4_Witness ==
  /\ returned # None /\ response.kind = "ok"
  /\ Len(Val(selected)) > 50
  /\ Len(clean_description(Val(selected))) = 50
  /\ Val(returned).value = NoDescriptionFound

\* C5: clean_description applied to its own result returns that result.
C5_CleanIsIdempotent == recleaned # None => recleaned = cleaned

\* C6: extract_nlp_features gives six zeros for the empty description and
\* for either sentinel, "No description found" and "Error extracting
\* description".
C6_SentinelsGiveZeros ==
  (nlp_features # None /\ description \in {<<>>, NoDescriptionFound, ErrorExtracting}) =>
    /\ Val(nlp_features).has_luxury_keywords = 0
    /\ Val(nlp_features).has_renovation_keywords = 0
    /\ Val(nlp_features).has_view_keywords = 0
    /\ Val(nlp_features).has_outdoor_keywords = 0
    /\ Val(nlp_features).has_modern_keywords = 0
    /\ Val(nlp_features).has_location_keywords = 0

C6_Witness ==
  /\ nlp_features # None
  /\ description = ErrorExtracting
  /\ Val(nlp_features).has_renovation_keywords = 0

IsFetch(e) == e.ev = "fetch"

IsGeocode(e) == e.ev = "geocode"

RowLabelled(label) == CHOOSE k \in 1..Len(work) : work[k].label = label

\* C7: no fetch or geocoder failure escapes or stops a batch.  Neither loop
\* ever ends in an escaped exception and neither gets stuck; every fetch
\* yields a description string, which is "Error extracting description" for
\* every failed fetch; every geocoder timeout, failure or no-match leaves the
\* pair (None, None) on its row and every match leaves its coordinates; and
\* a loop that has ended has processed all its rows, those after a failed
\* one included.
C7_FailuresStayInside ==
  /\ pc # "crashed"
  /\ (pc \in {"describe", "enhance"} => ENABLED Next)
  /\ script = "step2" =>
       LET fetches == SelectSeq(log, IsFetch)
       IN /\ Len(fetches) = Len(descriptions)
          /\ Len(descriptions) = i
          /\ \A k \in 1..Len(fetches) :
               /\ fetches[k].label = work[k].label
               /\ (fetches[k].what \in FailureKinds => descriptions[k] = ErrorExtracting)
          /\ (pc \in {"assign", "done"} => Len(descriptions) = Len(work))
  /\ script = "step3" =>
       LET geocodes == SelectSeq(log, IsGeocode)
       IN /\ \A k \in 1..Len(geocodes) :
               LET row == work[RowLabelled(geocodes[k].label)]
               IN /\ (geocodes[k].what \in {"timeout", "error", "no_match"}
                        => row.latitude = None /\ row.longitude = None)
                  /\ (geocodes[k].what = "match"
                        => row.latitude # None /\ row.longitude # None)
          /\ \A k \in 1..i :
               ~FalsyStr(work[k].address) =>
                 \E j \in 1..Len(geocodes) : geocodes[j].label = work[k].label
          /\ (pc \in {"score", "done"} => i = Len(work))

C7_Witness ==
  /\ script = "step3" /\ pc = "done"
  /\ Len(work) = NumRows
  /\ LET geocodes == SelectSeq(log, IsGeocode)
     IN /\ Len(geocodes) = NumRows
        /\ geocodes[1].what = "error"
        /\ geocodes[2].what = "match"
        /\ work[1].latitude = None
        /\ work[2].latitude = Some(3744)

InBox(la, lo) == 3730 <= la /\ la <= 3780 /\ -12250 <= lo /\ lo <= -12180

EastBayBand(lo) == -12220 <= lo /\ lo <= -12190

PeninsulaBand(lo) == -12230 <= lo /\ lo <= -12210

EastBayRatings ==
  [nearest_elementary_rating |-> Some(7), nearest_middle_rating |-> Some(7),
   nearest_high_rating |-> Some(6), school_district |-> Some("East Bay Unified")]

PeninsulaRatings ==
  [nearest_elementary_rating |-> Some(8), nearest_middle_rating |-> Some(8),
   nearest_high_rating |-> Some(8), school_district |-> Some("Peninsula Schools")]

BayAreaRatings ==
  [nearest_elementary_rating |-> Some(6), nearest_middle_rating |-> Some(6),
   nearest_high_rating |-> Some(7), school_district |-> Some("Bay Area Schools")]

LocalRatings ==
  [nearest_elementary_rating |-> Some(6), nearest_middle_rating |-> Some(6),
   nearest_high_rating |-> Some(6), school_district |-> Some("Local District")]

UnknownRatings ==
  [nearest_elementary_rating |-> None, nearest_middle_rating |-> None,
   nearest_high_rating |-> None, school_district |-> None]

IsEstimate(fn) == estimate # None /\ Val(estimate).fn = fn

\* C8: get_transit_data_google never raises and returns one of two results:
\* (0.5, "Transit Station", 80) if and only if a key is configured, both
\* coordinates are present and the call answers 200 with at least one
\* result; (0.8, "Bus", 60) otherwise; without a key or with a coordinate
\* missing the service is not called.
C8_FoundIffKeyCoordsAndResults ==
  IsEstimate("transit") =>
    LET result == Val(estimate).out
        configured == google_api_key # None /\ google_api_key # Some(<<>>)
        present == lat # None /\ lon # None
        answered == /\ places.kind = "response" /\ places.status_code = 200
                    /\ places.json = "object" /\ places.results >= 1
    IN /\ ~result.raised
       /\ result.value \in {Transit(8, "Bus", 60), Transit(5, "Transit Station", 80)}
       /\ (result.value = Transit(5, "Transit Station", 80)
             <=> (configured /\ present /\ answered))
       /\ (~(configured /\ present) => places_calls = 0)

\* C9 as stated: inside the metro box exactly one of the three longitude
\* sub-bands holds and the ratings are that sub-band's; outside the box the
\* ratings are (6,6,6) Local District.
C9_BandsMutuallyExclusive ==
  (IsEstimate("school") /\ lat # None /\ lon # None) =>
    LET out == Val(estimate).out.value
        la == Val(lat)
        lo == Val(lon)
    IN /\ (InBox(la, lo) =>
             /\ ~(EastBayBand(lo) /\ PeninsulaBand(lo))
             /\ (EastBayBand(lo) => out = EastBayRatings)
             /\ (PeninsulaBand(lo) => out = PeninsulaRatings)
             /\ (~EastBayBand(lo) /\ ~PeninsulaBand(lo) => out = BayAreaRatings))
       /\ (~InBox(la, lo) => out = LocalRatings)

\* C9, amended: the East Bay and Peninsula sub-bands overlap on
\* -122.2..-122.1 and the East Bay test comes first.  Inside the metro box
\* the ratings are (7,7,6) East Bay Unified for -122.2 <= lon <= -121.9,
\* (8,8,8) Peninsula Schools for -122.3 <= lon < -122.2 and (6,6,7) Bay Area
\* Schools for the rest; outside the box they are (6,6,6) Local District,
\* except that a coordinate equal to 0 is taken as missing and gives all
\* None.
C9_FirstMatchingBand ==
  (IsEstimate("school") /\ lat # None /\ lon # None) =>
    LET out == Val(estimate).out.value
        la == Val(lat)
        lo == Val(lon)
    IN /\ (InBox(la, lo) /\ -12220 <= lo /\ lo <= -12190 => out = EastBayRatings)
       /\ (InBox(la, lo) /\ -12230 <= lo /\ lo < -12220 => out = PeninsulaRatings)
       /\ (InBox(la, lo) /\ (lo < -12230 \/ lo > -12190) => out = BayAreaRatings)
       /\ (~InBox(la, lo) /\ la # 0 /\ lo # 0 => out = LocalRatings)
       /\ (la = 0 \/ lo = 0 => out = UnknownRatings)

C9_Witness ==
  /\ IsEstimate("school") /\ lat # None /\ lon # None
  /\ InBox(Val(lat), Val(lon))
  /\ EastBayBand(Val(lon)) /\ PeninsulaBand(Val(lon))
  /\ Val(estimate).out.value = EastBayRatings

InTier(cities) ==
  /\ address # None /\ address # Some(<<>>)
  /\ \E k \in 1..Len(cities) : Contains(Lower(Val(address)), cities[k])

TiersMatched ==
  {t \in {"urban", "suburban", "small_town"} :
     \/ t = "urban" /\ InTier(urban_cities)
     \/ t = "suburban" /\ InTier(suburban_cities)
     \/ t = "small_town" /\ InTier(small_town_cities)}

\* C10 as stated: at most one city-name tier matches an address and the walk
\* score is that tier's (85, 65, 55); no tier or an empty address gives 45.
C10_TiersMutuallyExclusive ==
  IsEstimate("walk") =>
    LET score == Val(estimate).out.value
    IN /\ Cardinality(TiersMatched) <= 1
       /\ ("urban" \in TiersMatched => score = 85)
       /\ ("suburban" \in TiersMatched => score = 65)
       /\ ("small_town" \in TiersMatched => score = 55)
       /\ (TiersMatched = {} => score = 45)

\* C10, amended: an address can match several tiers ("downtown oakland");
\* the walk score is that of the first matching tier in the order urban
\* core (85), inner suburb (65), outer suburb (55), so the order of the
\* tests matters; no tier, or an empty or missing address, gives 45.
C10_FirstMatchingTier ==
  IsEstimate("walk") =>
    LET score == Val(estimate).out.value
    IN /\ ("urban" \in TiersMatched => score = 85)
       /\ ("urban" \notin TiersMatched /\ "suburban" \in TiersMatched => score = 65)
       /\ (TiersMatched = {"small_town"} => score = 55)
       /\ (TiersMatched = {} => score = 45)

C10_Witness ==
  /\ IsEstimate("walk")
  /\ TiersMatched = {"urban", "suburban"}
  /\ Val(estimate).out.value = 85

Enhanced == script = "step3" /\ pc \in {"score", "done"}

TransitOf(row) ==
  [distance_to_transit |-> row.distance_to_transit,
   nearest_transit_type |-> row.nearest_transit_type,
   public_transit_score |-> row.public_transit_score]

\* C11: after enhance_location_features every record with a non-empty
\* address carries a walk score, the one its address text alone gives, and
\* the three transit fields; a record whose geocoding returned (None, None)
\* carries the fixed transit estimate (0.8, "Bus", 60).
C11_EstimatesWithoutCoordinates ==
  Enhanced =>
    \A k \in 1..Len(work) :
      ~FalsyStr(work[k].address) =>
        /\ work[k].walk_score = Some(get_estimated_walk_score(None, None, work[k].address))
        /\ work[k].distance_to_transit # None
        /\ work[k].nearest_transit_type # None
        /\ work[k].public_transit_score # None
        /\ (work[k].latitude = None /\ work[k].longitude = None
              => TransitOf(work[k]) = EstimatedTransit)

RowStages == {"fetch", "features", "geocode", "places", "estimates", "skip"}

IsStage(a) == log[a].ev \in RowStages

RowAt(a) == RowLabelled(log[a].label)

IsScore(e) == e.ev = "score"

\* the stages of row k that the loop runs are all among the first n events
RowComplete(k, n) ==
  \E a \in 1..n :
    /\ log[a].label = work[k].label
    /\ \/ log[a].ev \in {"features", "estimates", "skip"}
       \/ /\ log[a].ev = "geocode"
          /\ Falsy(work[k].latitude) \/ Falsy(work[k].longitude)

OneRowAtATime ==
  \A a, b \in 1..Len(log) :
    (a < b /\ IsStage(a) /\ IsStage(b)) =>
      /\ RowAt(a) <= RowAt(b)
      /\ RowAt(a) < RowAt(b) => RowComplete(RowAt(a), b - 1)

\* C12 as stated: records are handled one at a time and every stage of a
\* record, its location score and category included, is completed before any
\* stage of the next record starts.
C12_FullyEnrichedBeforeNext ==
  /\ OneRowAtATime
  /\ script = "step3" =>
       \A b \in 1..Len(log) :
         (IsStage(b) /\ RowAt(b) > 1 /\ ~FalsyStr(work[RowAt(b) - 1].address)) =>
           /\ \E a \in 1..(b - 1) : IsScore(log[a])
           /\ work[RowAt(b) - 1].location_category # None

\* C12, amended: inside each loop records are handled one at a time, the
\* description and keyword features of a record (description loop), or its
\* geocoding and regional estimates (location loop), being complete before
\* the next record's first stage starts.  The location score and category
\* are not computed per record: create_location_features computes them for
\* all records at once, after the location loop has ended, so no row has a
\* score while the loop runs and every row has one at the end.
C12_OneRecordAtATime ==
  /\ OneRowAtATime
  /\ \A a \in 1..Len(log) :
       IsScore(log[a]) => (a = Len(log) /\ script = "step3" /\ pc = "done")
  /\ (script = "step3" /\ pc \in {"enhance", "score"}) =>
       \A k \in 1..Len(work) :
         work[k].location_score = None /\ work[k].location_category = None
  /\ (script = "step3" /\ pc = "done" /\ work # <<>>) =>
       /\ IsScore(log[Len(log)])
       /\ \A k \in 1..Len(work) :
            /\ RowComplete(k, Len(log) - 1)
            /\ work[k].location_score # None /\ work[k].location_category # None

C12_Witness ==
  /\ script = "step3" /\ pc = "done" /\ Len(work) = NumRows
  /\ IsScore(log[Len(log)])
  /\ \E a, b \in 1..Len(log) :
       /\ a < b
       /\ log[a].ev = "estimates" /\ RowAt(a) = 1
       /\ log[b].ev = "geocode" /\ RowAt(b) = 2
  /\ work[1].location_category # None

IsSleep(e) == e.ev = "sleep"

IsRequest(e) == e.ev \in {"fetch", "geocode", "places"}

\* the positions of the log strictly between a and b that hold a sleep
SleepsBetween(a, b) == {c \in (a + 1)..(b - 1) : IsSleep(log[c])}

\* a and b are consecutive requests of the same kind, that is to the same
\* remote service
ConsecutiveRequests(a, b) ==
  /\ a < b
  /\ IsRequest(log[a]) /\ log[b].ev = log[a].ev
  /\ \A c \in (a + 1)..(b - 1) : log[c].ev # log[a].ev

\* C13: a fixed sleep separates consecutive requests to the same service.
\* Description loop: the sleep is scraper.delay (2 s); exactly one lies
\* between any two page fetches, one follows every record but the last and
\* none follows the final fetch.  Location loop: the sleep is 1 s; one
\* follows every record that issued a geocoding request, and a record
\* skipped for lack of an address issues no request (and gets no sleep).
C13_PacingBetweenRequests ==
  /\ \A a, b \in 1..Len(log) :
       ConsecutiveRequests(a, b) => SleepsBetween(a, b) # {}
  /\ script = "step2" =>
       /\ \A a \in 1..Len(log) : IsSleep(log[a]) => log[a].secs = 2
       /\ \A a, b \in 1..Len(log) :
            (ConsecutiveRequests(a, b) /\ IsFetch(log[a]))
              => Cardinality(SleepsBetween(a, b)) = 1
       /\ \A k \in 1..i :
            LET after == {c \in 1..Len(log) :
                            IsSleep(log[c]) /\ log[c].label = work[k].label}
            IN Cardinality(after) = IF k < Len(work) THEN 1 ELSE 0
       /\ (pc \in {"assign", "done"} /\ log # <<>>) => ~IsSleep(log[Len(log)])
  /\ script = "step3" =>
       /\ \A a \in 1..Len(log) : IsSleep(log[a]) => log[a].secs = 1
       /\ \A k \in 1..i :
            LET asked == {c \in 1..Len(log) :
                            IsRequest(log[c]) /\ log[c].label = work[k].label}
                slept == {c \in 1..Len(log) :
                            IsSleep(log[c]) /\ log[c].label = work[k].label}
            IN IF FalsyStr(work[k].address)
                 THEN asked = {} /\ slept = {}
                 ELSE /\ \E c \in asked : IsGeocode(log[c])
                      /\ Cardinality(slept) = 1
                      /\ \A c \in asked, d \in slept : c < d

C13_Witness ==
  /\ script = "step2" /\ pc = "done" /\ Len(work) = NumRows
  /\ Cardinality({a \in 1..Len(log) : IsFetch(log[a])}) = NumRows
  /\ Cardinality({a \in 1..Len(log) : IsSleep(log[a])}) = NumRows - 1
  /\ log[Len(log)].ev = "features"

Described == script = "step2" /\ pc = "done" /\ work # <<>>

FeaturesOf(row) == Some(extract_nlp_features(Val(row.property_description)))

\* C14: after the description batch, every source row with a detail link
\* carries, in the with-links table and in the merged complete table, the
\* keyword flags of its own property_description, whether or not rows
\* without a link were dropped before it; a row without a link gets an empty
\* description and all-zero flags.
C14_FlagsOfOwnDescription ==
  Described =>
    /\ \A k \in 1..Len(work) :
         /\ work[k].property_description = Some(descriptions[k])
         /\ work[k].features = FeaturesOf(work[k])
    /\ \A k \in 1..Len(df) :
         IF df[k].details_link # None
           THEN /\ complete[k].property_description
                     = work[RowLabelled(k - 1)].property_description
                /\ complete[k].features = FeaturesOf(complete[k])
           ELSE /\ complete[k].property_description = Some(<<>>)
                /\ complete[k].features = Some(NoKeywords)

====
